---- MODULE Spec2Model ----
(***************************************************************************)
(* Model of src/main.py: a scraper that loads a seed page, extracts the    *)
(* links to PDF documents and downloads each one through a browser into a  *)
(* folder, skipping names that are already there.                          *)
(*                                                                         *)
(* Strings are sequences of one-character strings, so that suffix tests,   *)
(* lower-casing, percent-decoding and path splitting are computed rather   *)
(* than assumed.                                                           *)
(***************************************************************************)
EXTENDS Integers, Sequences, FiniteSets, TLC

\* ------------------------------------------------------------------ bounds

\* The watcher's timeout (60 s by default) counted in poll intervals of 0.5 s,
\* scaled down.
TimeoutTicks == 3

\* Longest list of href values drawn for the extractor's specification.
MaxHrefs == 4

\* The clock stops here: far beyond what any run of the program reaches.
MaxClock == 12

\* ------------------------------------------------------------- string helpers

StartsWith(s, pre) ==
    Len(s) >= Len(pre) /\ SubSeq(s, 1, Len(pre)) = pre

\* str.endswith
EndsWith(s, suf) ==
    Len(s) >= Len(suf) /\ SubSeq(s, Len(s) - Len(suf) + 1, Len(s)) = suf

UpperChars == <<"A","B","C","D","E","F","G","H","I","J","K","L","M",
                "N","O","P","Q","R","S","T","U","V","W","X","Y","Z">>
LowerChars == <<"a","b","c","d","e","f","g","h","i","j","k","l","m",
                "n","o","p","q","r","s","t","u","v","w","x","y","z">>

LowerChar(c) ==
    IF \E i \in 1..26 : UpperChars[i] = c
    THEN LowerChars[CHOOSE i \in 1..26 : UpperChars[i] = c]
    ELSE c

\* str.lower
Lower(s) == [i \in 1..Len(s) |-> LowerChar(s[i])]

HexDigits == <<"0","1","2","3","4","5","6","7","8","9">>

IsHex(c) ==
    \/ \E i \in 1..10 : HexDigits[i] = c
    \/ \E i \in 1..6 : UpperChars[i] = c \/ LowerChars[i] = c

HexVal(c) ==
    IF \E i \in 1..10 : HexDigits[i] = c
    THEN (CHOOSE i \in 1..10 : HexDigits[i] = c) - 1
    ELSE 9 + (CHOOSE i \in 1..6 : UpperChars[i] = c \/ LowerChars[i] = c)

\* The character of a byte value: the printable bytes the inputs use; any other
\* byte is kept apart as "?".
ByteChar(n) ==
    CASE n = 32 -> " "
      [] n = 37 -> "%"
      [] n = 44 -> ","
      [] n = 46 -> "."
      [] n = 47 -> "/"
      [] n \in 65..90 -> UpperChars[n - 64]
      [] n \in 97..122 -> LowerChars[n - 96]
      [] OTHER -> "?"

\* urllib.parse.unquote: every %XX with two hex digits becomes its byte, anything
\* else is kept as it is.
RECURSIVE unquote(_)
unquote(s) ==
    IF s = <<>> THEN <<>>
    ELSE IF s[1] = "%" /\ Len(s) >= 3 /\ IsHex(s[2]) /\ IsHex(s[3])
         THEN <<ByteChar(16 * HexVal(s[2]) + HexVal(s[3]))>>
              \o unquote(SubSeq(s, 4, Len(s)))
         ELSE <<s[1]>> \o unquote(Tail(s))

\* Positions of s where sub starts.
Occurrences(s, sub) ==
    {i \in 1..(Len(s) - Len(sub) + 1) : SubSeq(s, i, i + Len(sub) - 1) = sub}

Min(S) == CHOOSE x \in S : \A y \in S : x <= y
Max(S) == CHOOSE x \in S : \A y \in S : x >= y

SchemeSep == <<":", "/", "/">>

\* urlparse(url).path: what follows the authority, up to the query or fragment.
\* A string with no "scheme://" is all path.
UrlPath(url) ==
    LET seps == Occurrences(url, SchemeSep)
        hasScheme == seps # {} /\ Min(seps) > 1
                     /\ \A i \in 1..(Min(seps) - 1) : url[i] \notin {"/", "?", "#"}
        afterAuth == IF hasScheme THEN Min(seps) + 3 ELSE 1
        stops == {i \in afterAuth..Len(url) : url[i] \in {"?", "#"}}
        end == IF stops = {} THEN Len(url) ELSE Min(stops) - 1
        slashes == {i \in afterAuth..end : url[i] = "/"}
        start == IF ~hasScheme THEN 1
                 ELSE IF slashes = {} THEN end + 1 ELSE Min(slashes)
    IN  SubSeq(url, start, end)

\* os.path.basename: what follows the last "/".
Basename(p) ==
    LET slashes == {i \in 1..Len(p) : p[i] = "/"}
    IN  IF slashes = {} THEN p ELSE SubSeq(p, Max(slashes) + 1, Len(p))

FallbackName == <<"d","o","w","n","l","o","a","d","e","d",".","p","d","f">>

extract_filename_from_url(url) ==
    LET filename == Lower(Basename(unquote(UrlPath(url))))
    IN  IF filename # <<>> THEN filename ELSE FallbackName

Http == <<"h","t","t","p">>
SchemeHttp == <<"h","t","t","p",":","/","/">>
SchemeHttps == <<"h","t","t","p","s",":","/","/">>

\* validators.url: an absolute http(s) URL with a non-empty host and no blank.
is_valid_url(url) ==
    LET pre == IF StartsWith(url, SchemeHttps) THEN 8
               ELSE IF StartsWith(url, SchemeHttp) THEN 7 ELSE 0
        rest == SubSeq(url, pre + 1, Len(url))
        stops == {i \in 1..Len(rest) : rest[i] \in {"/", "?", "#"}}
        host == IF stops = {} THEN rest ELSE SubSeq(rest, 1, Min(stops) - 1)
    IN  /\ pre > 0
        /\ host # <<>>
        /\ \A i \in 1..Len(host) : host[i] \notin {" ", "[", "]", "%"}
        /\ \A i \in 1..Len(url) : url[i] # " "

BaseUrl == <<"h","t","t","p","s",":","/","/",
             "m","i","l","l","c","r","a","f","t",".","c","o","m">>

\* urllib.parse.urljoin against the site root, for a reference that is a path:
\* an absolute path replaces the (empty) base path, a relative one is merged
\* with it, and an empty reference gives the base.
urljoin(base, link) ==
    IF link = <<>> THEN base
    ELSE IF link[1] = "/" THEN base \o link
    ELSE base \o <<"/">> \o link

\* main, lines 213-214: a link that does not start with "http" is joined to the
\* site root.
Resolved(pdf_link) ==
    IF ~StartsWith(Lower(pdf_link), Http) THEN urljoin(BaseUrl, pdf_link)
    ELSE pdf_link

PdfSuffix == <<".","p","d","f">>
PartialSuffix == <<".","c","r","d","o","w","n","l","o","a","d">>

\* Mutant of IsPdfHref: the suffix is compared without lower-casing.
IsPdfHrefCaseSensitive(href) == EndsWith(unquote(href), PdfSuffix)

\* One iteration of parse_html's loop: whether an href is kept.
IsPdfHref(href) == EndsWith(Lower(unquote(href)), PdfSuffix)

\* parse_html: the href values of the page's anchors that name a PDF, in page
\* order, as written in the page.
parse_html(html) == SelectSeq(html, IsPdfHref)

Range(s) == {s[i] : i \in 1..Len(s)}

\* All orders of a set: list(set(...)) gives the elements in an order the
\* program does not control.
Orderings(S) ==
    {s \in [1..Cardinality(S) -> S] : \A x \in S : \E i \in DOMAIN s : s[i] = x}

remove_duplicates_from_slice(provided_slice) == Orderings(Range(provided_slice))

\* ------------------------------------------------------------------ inputs

HrefUpper == <<"/","a",".","P","D","F">>
HrefRelative == <<"b",".","p","d","f">>
HrefImage == <<"/","i","m","g",".","p","n","g">>
HrefNested == <<"/","x","/","B",".","p","d","f">>
HrefEscaped == <<"/","c","%","2","E","p","d","f">>
HrefNoScheme == <<"h","t","t","p",".","p","d","f">>
HrefSameName == <<"/","y","/","b",".","p","d","f">>

Hrefs == {HrefUpper, HrefRelative, HrefImage, HrefNested, HrefEscaped, HrefNoScheme}

\* The href values of the anchors of a page, in page order.
Pages ==
    { <<HrefUpper, HrefRelative, HrefRelative, HrefImage>>,
      <<HrefRelative, HrefNested>>,
      <<HrefRelative, HrefSameName>>,
      <<HrefEscaped, HrefRelative>>,
      <<HrefNoScheme, HrefEscaped>>,
      <<HrefImage>> }

CachedPages == { <<HrefEscaped, HrefImage>> }

NameB == <<"b",".","p","d","f">>

\* A folder is a function from file names to what the file holds: 0 for a file
\* that was there before the run, i for the download of the i-th link.
EmptyFolder == [n \in {} |-> 0]
Put(f, n, c) == [x \in DOMAIN f \cup {n} |-> IF x = n THEN c ELSE f[x]]
Remove(f, n) == [x \in DOMAIN f \ {n} |-> f[x]]

InitialFolders == {EmptyFolder, Put(EmptyFolder, NameB, 0)}

\* -------------------------------------------------------------------- state

\* What the history variables record of a listing: a finished PDF by its name,
\* and a listing whose new files are all in-progress files.
FinalPdfName(name) ==
    /\ Len(name) >= 4
    /\ SubSeq(name, Len(name) - 3, Len(name)) = <<".", "p", "d", "f">>

OnlyPartial(names) ==
    /\ names # {}
    /\ \A n \in names : EndsWith(n, PartialSuffix)

VARIABLES
    pc,              \* position of main / download_pdf / wait_for_pdf_download
    acquired,        \* the browser session was created
    quits,           \* number of driver.quit() calls
    raised,          \* main's except clause ran
    seedPage,        \* what the seed page holds
    htmlFile,        \* the cached snapshot: [exists, content]
    pdf_links,       \* main's list of links
    idx,             \* position of main's for loop in pdf_links
    url,             \* download_pdf's url
    filename,        \* download_pdf's filename
    folder,          \* the download folder
    existing_files,  \* download_pdf's baseline snapshot
    now,             \* time.time(), in poll intervals
    deadline,        \* wait_for_pdf_download's deadline
    new_files,       \* what is left of the watcher's for loop
    downloaded_path, \* the watcher's result
    jobs,            \* the browser's downloads: link index -> [url, stage, tmp, prompt]
    html0,           \* history: htmlFile at start
    folder0,         \* history: folder at start
    fetches,         \* history: navigations to the seed page
    writes,          \* history: writes to the cached snapshot
    atEntry,         \* history: folder when the current download_pdf call began
    outcome,         \* history: link index -> how its processing ended
    moved,           \* history: link index -> [src, tag] of the file moved for it
    watch            \* history: the current or last wait

vars == <<pc, acquired, quits, raised, seedPage, htmlFile, pdf_links, idx, url,
          filename, folder, existing_files, now, deadline, new_files,
          downloaded_path, jobs, html0, folder0, fetches, writes, atEntry,
          outcome, moved, watch>>

progVars == <<pdf_links, idx, url, filename, existing_files, deadline, new_files,
              downloaded_path>>

NoWatch == [result |-> "none", listedQual |-> FALSE, listedPartialOnly |-> FALSE,
            landedInTime |-> FALSE]

Init ==
    /\ pc = "start"
    /\ acquired = FALSE
    /\ quits = 0
    /\ raised = FALSE
    /\ seedPage \in Pages
    /\ htmlFile \in {[exists |-> FALSE, content |-> <<>>]}
                    \cup {[exists |-> TRUE, content |-> p] : p \in CachedPages}
    /\ pdf_links = <<>>
    /\ idx = 0
    /\ url = <<>>
    /\ filename = <<>>
    /\ folder \in InitialFolders
    /\ existing_files = {}
    /\ now = 0
    /\ deadline = 0
    /\ new_files = {}
    /\ downloaded_path = <<>>
    /\ jobs = [i \in {} |-> 0]
    /\ html0 = htmlFile
    /\ folder0 = folder
    /\ fetches = 0
    /\ writes = 0
    /\ atEntry = EmptyFolder
    /\ outcome = [i \in {} |-> ""]
    /\ moved = [i \in {} |-> 0]
    /\ watch = NoWatch

\* ------------------------------------------------------------ file system

\* Mutant of file_exists: the check never finds the file.
file_exists_never(dir, name) == FALSE

\* os.path.isfile on a name of the download folder
file_exists(dir, name) == name \in DOMAIN dir

\* os.path.exists on a name of the download folder
path_exists(dir, name) == name \in DOMAIN dir

\* Mutant of check_file_exists: the check never finds the snapshot.
check_file_exists_never(f) == FALSE

\* os.path.isfile on the cached snapshot
check_file_exists(f) == f.exists

\* open(mode="a") and write: creates the file when absent, appends otherwise
append_write_to_file(f, content) ==
    [exists |-> TRUE, content |-> f.content \o content]

\* os.listdir
listdir(dir) == DOMAIN dir

\* shutil.move of a file onto a file path of the same folder: a rename, which
\* replaces whatever the target held.
shutil_move(dir, src, dst) ==
    IF src = dst THEN dir ELSE Put(Remove(dir, src), dst, dir[src])

\* ------------------------------------------------------------------ browser

\* The name the browser saves a download under: the last segment of the URL's
\* path, decoded, in the URL's own letter case.
BrowserName(u) == Basename(unquote(UrlPath(u)))

Numbered(name, k) ==
    LET dots == {i \in 1..Len(name) : name[i] = "."}
        cut == IF dots = {} THEN Len(name) + 1 ELSE Max(dots)
    IN  SubSeq(name, 1, cut - 1) \o <<" ", "(", k, ")">> \o SubSeq(name, cut, Len(name))

\* The browser never replaces a file: a taken name gets a number.
Uniquify(name, dir) ==
    IF name \notin DOMAIN dir THEN name
    ELSE IF Numbered(name, "1") \notin DOMAIN dir THEN Numbered(name, "1")
    ELSE Numbered(name, "2")

PartialName(u) == BrowserName(u) \o PartialSuffix

BrowserUp == acquired /\ quits = 0

\* ------------------------------------------------------------- the watcher

\* Mutant of Qualifies: the ".pdf" test is left out.
QualifiesAnyButPartial(name) == ~EndsWith(name, PartialSuffix)

\* Mutant of Qualifies: the "not" of the in-progress test is left out.
QualifiesPartialOnly(name) ==
    EndsWith(name, PdfSuffix) /\ EndsWith(name, PartialSuffix)

\* The test of wait_for_pdf_download on a new file's name.
Qualifies(name) == EndsWith(name, PdfSuffix) /\ ~EndsWith(name, PartialSuffix)

NewFiles(current_files, existing) == current_files \ existing

\* Mutant of BeforeDeadline: the loop has no deadline test.
BeforeDeadlineAlways(t, d) == TRUE

\* The watcher's loop test.
BeforeDeadline(t, d) == t < d

\* ------------------------------------------------------- exception routing

\* Mutant of Raise: no finally clause, the exception leaves main.
RaiseLeavesMain == "done"

\* Where an exception goes that main's try block does not handle itself.
Raise == "except"

\* Mutant of DpCaught: download_pdf has no except clause.
DpPropagates == "except"

\* Where download_pdf's except clause leaves: it returns, and main's loop goes on.
DpCaught == "loop"

\* Where main's continue and download_pdf's early returns leave.
DpSkipped == "loop"

Ended(i, how) == outcome' = Put(outcome, i, how)

\* ------------------------------------------------------------------ actions

\* main, lines 189-195: the folder is made and the session is launched; a launch
\* that fails leaves main before its try block.
Start ==
    /\ pc = "start"
    /\ \E ok \in BOOLEAN :
        IF ok THEN acquired' = TRUE /\ pc' = "check_cache"
        ELSE acquired' = FALSE /\ pc' = "launch_failed"
    /\ UNCHANGED <<quits, raised, seedPage, htmlFile, folder, now, jobs, html0,
                   folder0, fetches, writes, atEntry, outcome, moved, watch>>
    /\ UNCHANGED progVars

\* main, line 198
CheckCache ==
    /\ pc = "check_cache"
    /\ pc' = IF ~check_file_exists(htmlFile) THEN "save_html" ELSE "read_html"
    /\ UNCHANGED <<acquired, quits, raised, seedPage, htmlFile, folder, now, jobs,
                   html0, folder0, fetches, writes, atEntry, outcome, moved, watch>>
    /\ UNCHANGED progVars

\* save_html_with_selenium: navigate, wait, append the page source to the file.
SaveHtml ==
    /\ pc = "save_html"
    /\ \E ok \in BOOLEAN :
        IF ok
        THEN /\ fetches' = fetches + 1
             /\ htmlFile' = append_write_to_file(htmlFile, seedPage)
             /\ writes' = writes + 1
             /\ pc' = "read_html"
        ELSE /\ fetches' = fetches + 1
             /\ pc' = Raise
             /\ UNCHANGED <<htmlFile, writes>>
    /\ UNCHANGED <<acquired, quits, raised, seedPage, folder, now, jobs, html0,
                   folder0, atEntry, outcome, moved, watch>>
    /\ UNCHANGED progVars

\* main, lines 206-209: read the snapshot, extract the links, drop duplicates.
ReadHtml ==
    /\ pc = "read_html"
    /\ IF check_file_exists(htmlFile)
       THEN \E ok \in BOOLEAN :
            IF ok
            THEN /\ pdf_links' \in
                        remove_duplicates_from_slice(parse_html(htmlFile.content))
                 /\ idx' = 1
                 /\ pc' = "loop"
            ELSE pc' = Raise /\ UNCHANGED <<pdf_links, idx>>
       ELSE pc' = "finally" /\ UNCHANGED <<pdf_links, idx>>
    /\ UNCHANGED <<acquired, quits, raised, seedPage, htmlFile, folder, now, jobs,
                   html0, folder0, fetches, writes, atEntry, outcome, moved, watch,
                   url, filename, existing_files, deadline, new_files,
                   downloaded_path>>

\* main, lines 211-225: the next link is resolved and checked; a valid one
\* enters download_pdf.
LoopHead ==
    /\ pc = "loop"
    /\ IF idx > Len(pdf_links)
       THEN pc' = "finally" /\ UNCHANGED <<idx, url, atEntry, outcome>>
       ELSE LET resolved == Resolved(pdf_links[idx])
            IN  IF ~is_valid_url(resolved)
                THEN /\ Ended(idx, "invalid")
                     /\ idx' = idx + 1
                     /\ pc' = DpSkipped
                     /\ UNCHANGED <<url, atEntry>>
                ELSE /\ url' = resolved
                     /\ atEntry' = folder
                     /\ pc' = "dp_entry"
                     /\ UNCHANGED <<idx, outcome>>
    /\ UNCHANGED <<acquired, quits, raised, seedPage, htmlFile, folder, now, jobs,
                   html0, folder0, fetches, writes, moved, watch, pdf_links,
                   filename, existing_files, deadline, new_files, downloaded_path>>

\* download_pdf, lines 106-119
DpEntry ==
    /\ pc = "dp_entry"
    /\ IF ~is_valid_url(url)
       THEN /\ Ended(idx, "invalid")
            /\ idx' = idx + 1
            /\ pc' = DpSkipped
            /\ UNCHANGED filename
       ELSE /\ filename' = extract_filename_from_url(url)
            /\ IF file_exists(folder, filename')
               THEN /\ Ended(idx, "exists")
                    /\ idx' = idx + 1
                    /\ pc' = DpSkipped
               ELSE /\ pc' = "dp_snapshot"
                    /\ UNCHANGED <<idx, outcome>>
    /\ UNCHANGED <<acquired, quits, raised, seedPage, htmlFile, folder, now, jobs,
                   html0, folder0, fetches, writes, atEntry, moved, watch,
                   pdf_links, url, existing_files, deadline, new_files,
                   downloaded_path>>

\* download_pdf, lines 123-125: the baseline, taken outside the try block.
DpSnapshot ==
    /\ pc = "dp_snapshot"
    /\ \E ok \in BOOLEAN :
        IF ok
        THEN existing_files' = listdir(folder) /\ pc' = "dp_get"
        ELSE pc' = Raise /\ UNCHANGED existing_files
    /\ UNCHANGED <<acquired, quits, raised, seedPage, htmlFile, folder, now, jobs,
                   html0, folder0, fetches, writes, atEntry, outcome, moved, watch,
                   pdf_links, idx, url, filename, deadline, new_files,
                   downloaded_path>>

\* download_pdf, line 128, and wait_for_pdf_download, line 83: the navigation
\* starts a download in the browser and the watcher sets its deadline.
DpGet ==
    /\ pc = "dp_get"
    /\ \E ok \in BOOLEAN :
        IF ok
        THEN /\ jobs' = Put(jobs, idx, [url |-> url, stage |-> "pending",
                                         tmp |-> <<>>, prompt |-> FALSE])
             /\ deadline' = now + TimeoutTicks
             /\ watch' = [NoWatch EXCEPT !.result = "running"]
             /\ pc' = "w_poll"
             /\ UNCHANGED <<idx, outcome>>
        ELSE /\ Ended(idx, "nav_failed")
             /\ idx' = idx + 1
             /\ pc' = DpCaught
             /\ UNCHANGED <<jobs, deadline, watch>>
    /\ UNCHANGED <<acquired, quits, raised, seedPage, htmlFile, folder, now,
                   html0, folder0, fetches, writes, atEntry, moved, pdf_links, url,
                   filename, existing_files, new_files, downloaded_path>>

\* wait_for_pdf_download, lines 85-87 and 99: the loop test, and the listing.
WPoll ==
    /\ pc = "w_poll"
    /\ IF BeforeDeadline(now, deadline)
       THEN \E ok \in BOOLEAN :
            IF ok
            THEN /\ new_files' = NewFiles(listdir(folder), existing_files)
                 /\ watch' = [watch EXCEPT
                        !.listedQual = @ \/ \E f \in new_files' : FinalPdfName(f),
                        !.listedPartialOnly = @ \/ OnlyPartial(new_files')]
                 /\ pc' = "w_for"
                 /\ UNCHANGED <<idx, outcome>>
            ELSE /\ Ended(idx, "wait_failed")
                 /\ watch' = [watch EXCEPT !.result = "failed"]
                 /\ idx' = idx + 1
                 /\ pc' = DpCaught
                 /\ UNCHANGED new_files
       ELSE /\ Ended(idx, "timeout")
            /\ watch' = [watch EXCEPT !.result = "timeout"]
            /\ idx' = idx + 1
            /\ pc' = DpCaught
            /\ UNCHANGED new_files
    /\ UNCHANGED <<acquired, quits, raised, seedPage, htmlFile, folder, now, jobs,
                   html0, folder0, fetches, writes, atEntry, moved, pdf_links, url,
                   filename, existing_files, deadline, downloaded_path>>

\* wait_for_pdf_download, lines 89-97: one iteration of the for loop over the
\* new files, in an order the program does not control; the sleep when none
\* is left.
WFor ==
    /\ pc = "w_for"
    /\ IF new_files = {}
       THEN /\ now < MaxClock
            /\ now' = now + 1
            /\ pc' = "w_poll"
            /\ UNCHANGED <<new_files, downloaded_path, watch>>
       ELSE \E f \in new_files :
            IF Qualifies(f) /\ path_exists(folder, f)
            THEN /\ downloaded_path' = f
                 /\ watch' = [watch EXCEPT !.result = "returned"]
                 /\ pc' = "dp_move"
                 /\ UNCHANGED <<new_files, now>>
            ELSE /\ new_files' = new_files \ {f}
                 /\ pc' = "w_for"
                 /\ UNCHANGED <<downloaded_path, now, watch>>
    /\ UNCHANGED <<acquired, quits, raised, seedPage, htmlFile, folder, jobs,
                   html0, folder0, fetches, writes, atEntry, outcome, moved,
                   pdf_links, idx, url, filename, existing_files, deadline>>

\* download_pdf, lines 132-135
DpMove ==
    /\ pc = "dp_move"
    /\ folder' = shutil_move(folder, downloaded_path, filename)
    /\ moved' = Put(moved, idx, [src |-> downloaded_path,
                                 tag |-> folder[downloaded_path]])
    /\ Ended(idx, "moved")
    /\ idx' = idx + 1
    /\ pc' = "loop"
    /\ UNCHANGED <<acquired, quits, raised, seedPage, htmlFile, now, jobs, html0,
                   folder0, fetches, writes, atEntry, watch, pdf_links, url,
                   filename, existing_files, deadline, new_files, downloaded_path>>

\* main, lines 227-228
Except ==
    /\ pc = "except"
    /\ raised' = TRUE
    /\ pc' = "finally"
    /\ UNCHANGED <<acquired, quits, seedPage, htmlFile, folder, now, jobs, html0,
                   folder0, fetches, writes, atEntry, outcome, moved, watch>>
    /\ UNCHANGED progVars

\* main, lines 230-232
Finally ==
    /\ pc = "finally"
    /\ quits' = quits + 1
    /\ pc' = "done"
    /\ UNCHANGED <<acquired, raised, seedPage, htmlFile, folder, now, jobs, html0,
                   folder0, fetches, writes, atEntry, outcome, moved, watch>>
    /\ UNCHANGED progVars

\* The browser starts writing a download under its in-progress name.
BrowserPartial ==
    /\ BrowserUp
    /\ \E i \in DOMAIN jobs :
        /\ jobs[i].stage = "pending"
        /\ PartialName(jobs[i].url) \notin DOMAIN folder
        /\ folder' = Put(folder, PartialName(jobs[i].url), i)
        /\ jobs' = [jobs EXCEPT ![i].stage = "partial",
                                ![i].tmp = PartialName(jobs[i].url)]
    /\ UNCHANGED <<pc, acquired, quits, raised, seedPage, htmlFile, now, html0,
                   folder0, fetches, writes, atEntry, outcome, moved, watch>>
    /\ UNCHANGED progVars

\* The browser finishes a download: the in-progress file, if any, is replaced
\* by the file under its final name.
BrowserComplete ==
    /\ BrowserUp
    /\ \E i \in DOMAIN jobs :
        /\ jobs[i].stage \in {"pending", "partial"}
        /\ LET dir == IF jobs[i].stage = "partial"
                      THEN Remove(folder, jobs[i].tmp) ELSE folder
               final == Uniquify(BrowserName(jobs[i].url), dir)
           IN  /\ final \notin DOMAIN dir
               /\ folder' = Put(dir, final, i)
               /\ jobs' = [jobs EXCEPT
                      ![i].stage = "done",
                      ![i].prompt = /\ i = idx
                                    /\ pc = "w_poll"
                                    /\ now = deadline - TimeoutTicks]
               /\ watch' = [watch EXCEPT !.landedInTime =
                      @ \/ /\ watch.result = "running"
                           /\ now < deadline
                           /\ FinalPdfName(final)
                           /\ final \notin existing_files]
    /\ UNCHANGED <<pc, acquired, quits, raised, seedPage, htmlFile, now, html0,
                   folder0, fetches, writes, atEntry, outcome, moved>>
    /\ UNCHANGED progVars

ProgramStep ==
    \/ Start
    \/ CheckCache
    \/ SaveHtml
    \/ ReadHtml
    \/ LoopHead
    \/ DpEntry
    \/ DpSnapshot
    \/ DpGet
    \/ WPoll
    \/ WFor
    \/ DpMove
    \/ Except
    \/ Finally

Next ==
    \/ ProgramStep
    \/ BrowserPartial
    \/ BrowserComplete

Spec == Init /\ [][Next]_vars

\* The watcher's loop is straight-line code of the one program thread: while it
\* has a step to take, it takes it. The browser owes nothing.
FairSpec == Spec /\ WF_vars(WPoll) /\ WF_vars(WFor)

\* ------------------------------------- the extractor on every list of hrefs

HrefLists == UNION {[1..n -> Hrefs] : n \in 0..MaxHrefs}

\* main stands before line 206 with a snapshot holding any list of hrefs.
InitExtract ==
    /\ pc = "read_html"
    /\ acquired = TRUE
    /\ quits = 0
    /\ raised = FALSE
    /\ seedPage = <<>>
    /\ htmlFile \in {[exists |-> TRUE, content |-> p] : p \in HrefLists}
    /\ pdf_links = <<>>
    /\ idx = 0
    /\ url = <<>>
    /\ filename = <<>>
    /\ folder = EmptyFolder
    /\ existing_files = {}
    /\ now = 0
    /\ deadline = 0
    /\ new_files = {}
    /\ downloaded_path = <<>>
    /\ jobs = [i \in {} |-> 0]
    /\ html0 = htmlFile
    /\ folder0 = folder
    /\ fetches = 0
    /\ writes = 0
    /\ atEntry = EmptyFolder
    /\ outcome = [i \in {} |-> ""]
    /\ moved = [i \in {} |-> 0]
    /\ watch = NoWatch

NextExtract == ReadHtml

SpecExtract == InitExtract /\ [][NextExtract]_vars

\* ------------------------------------------------------------------- claims

InDownloadPdf ==
    pc \in {"dp_entry", "dp_snapshot", "dp_get", "w_poll", "w_for", "dp_move"}

\* C1: no step of a download_pdf call changes a file that was in the folder
\* when the call began, and a call whose derived filename names an existing
\* file ends there: no navigation, no move, the folder as it was.
C1_NeverOverwrites ==
    [][ProgramStep /\ InDownloadPdf =>
        /\ \A n \in DOMAIN atEntry \cap DOMAIN folder :
              n \in DOMAIN folder' /\ folder'[n] = folder[n]
        /\ (pc = "dp_entry" /\ extract_filename_from_url(url) \in DOMAIN folder) =>
              /\ folder' = folder
              /\ jobs' = jobs
              /\ moved' = moved
              /\ pc' = "loop"
              /\ idx' = idx + 1]_vars

\* C1 witness: a run with a file from before the run in which one link was
\* skipped for its existing target and another one was downloaded and moved.
C1_Witness ==
    /\ NameB \in DOMAIN folder0
    /\ NameB \in DOMAIN folder /\ folder[NameB] = 0
    /\ \E i, j \in DOMAIN outcome : outcome[i] = "exists" /\ outcome[j] = "moved"

\* C2: what wait_for_pdf_download returns is new against the baseline, ends in
\* ".pdf", does not end in ".crdownload", and is in the folder at that poll.
C2_ReturnsFinishedNewPdf ==
    [][pc = "w_for" /\ pc' = "dp_move" =>
        /\ downloaded_path' \notin existing_files
        /\ FinalPdfName(downloaded_path')
        /\ ~EndsWith(downloaded_path', <<".","c","r","d","o","w","n","l","o","a","d">>)
        /\ downloaded_path' \in DOMAIN folder]_vars

\* C2 witness: the watcher returned after a poll in which the only new files
\* were in-progress files.
C2_Witness ==
    /\ pc = "dp_move"
    /\ watch.listedPartialOnly
    /\ folder[downloaded_path] = idx

\* C3: a wait always ends; it ends in TimeoutError only once the deadline has
\* passed, and a wait that never listed a finished new PDF does not return one.
C3_WaitEnds ==
    /\ (watch.result = "running") ~> (watch.result # "running")
    /\ [](watch.result = "timeout" => now >= deadline)
    /\ []((watch.result \notin {"none", "running"} /\ ~watch.listedQual)
            => watch.result \in {"timeout", "failed"})

\* C3 witness: a wait ended in TimeoutError with nothing new in the folder.
C3_Witness ==
    /\ watch.result = "timeout"
    /\ DOMAIN folder = existing_files

\* C4 as stated: a wait during which a finished new PDF landed before the
\* deadline does not end in TimeoutError.
C4_LandedBeforeDeadlineReturned ==
    watch.result = "timeout" => ~watch.landedInTime

\* C4 amended: once a poll that began before the deadline lists a finished new
\* PDF, the wait returns a path and does not end in TimeoutError.
C4_ListedIsReturned ==
    /\ (watch.result = "running" /\ watch.listedQual) ~> (watch.result = "returned")
    /\ [](watch.result \in {"timeout", "failed"} => ~watch.listedQual)

\* C4 witness: the wait returned the finished file after a poll that saw only
\* its in-progress file.
C4_Witness ==
    /\ watch.result = "returned"
    /\ watch.listedPartialOnly
    /\ pc = "dp_move"
    /\ jobs[idx].stage = "done"
    /\ jobs[idx].tmp # <<>>

PerUrlFailures == {"invalid", "exists", "timeout", "nav_failed", "wait_failed"}

\* C5: an invalid URL, an existing target, a watcher timeout and an exception
\* in the navigation or the wait each end that link only: main's loop goes on
\* with the next link, and a run no other exception ends processes every link.
C5_FailuresIsolated ==
    /\ [][(idx \in DOMAIN outcome' \ DOMAIN outcome /\ outcome'[idx] \in PerUrlFailures)
            => pc' = "loop" /\ idx' = idx + 1 /\ pdf_links' = pdf_links]_vars
    /\ [](pc = "done" /\ ~raised /\ idx > 0 => DOMAIN outcome = 1..Len(pdf_links))

\* C5 witness: a run in which a link failed and a later link was downloaded.
C5_Witness ==
    /\ pc = "done"
    /\ \E i, j \in DOMAIN outcome :
          i < j /\ outcome[i] \in {"timeout", "nav_failed", "wait_failed"}
                /\ outcome[j] = "moved"

\* C6: the session, once acquired, is closed exactly once on every way out of
\* main: main ends nowhere but after its finally clause.
C6_QuitExactlyOnce ==
    /\ quits <= 1
    /\ (pc = "done") = (quits = 1)
    /\ (pc = "done" \/ raised) => acquired

\* C6 witness: main ended through its except clause after an exception left
\* the download loop.
C6_Witness ==
    /\ pc = "done"
    /\ raised
    /\ quits = 1
    /\ DOMAIN outcome # {}

\* C7, for the most obliging run: the folder starts empty, every link's
\* download is triggered and finished by the browser before the watcher's
\* first poll, and no exception occurs. Then the folder ends with exactly the
\* derived names of the links, one file per link.
C7_EndToEnd ==
    (/\ pc = "done"
     /\ ~raised
     /\ folder0 = EmptyFolder
     /\ idx > 0
     /\ \A i \in 1..Len(pdf_links) :
           /\ i \in DOMAIN jobs /\ jobs[i].prompt
           /\ i \in DOMAIN outcome /\ outcome[i] # "wait_failed")
    => /\ DOMAIN folder =
            {extract_filename_from_url(Resolved(pdf_links[i])) : i \in 1..Len(pdf_links)}
       /\ Cardinality(DOMAIN folder) = Len(pdf_links)

\* The finished PDF names in every mix of letter case.
PdfSuffixes ==
    {<<".", p, d, f>> : p \in {"p", "P"}, d \in {"d", "D"}, f \in {"f", "F"}}

DecodedEndsInPdf(href) ==
    \E suf \in PdfSuffixes : EndsWith(unquote(href), suf)

\* C8: the links after parse_html and remove_duplicates_from_slice are the
\* hrefs of the page whose decoded form ends in ".pdf" in any letter case, as
\* written in the page, each once.
C8_ExtractsPdfHrefs ==
    pc = "loop" =>
        /\ Range(pdf_links) = {h \in Range(htmlFile.content) : DecodedEndsInPdf(h)}
        /\ Cardinality(Range(pdf_links)) = Len(pdf_links)

\* C8 witness: the list of the specification's example.
C8_Witness ==
    /\ pc = "loop"
    /\ htmlFile.content = <<HrefUpper, HrefRelative, HrefRelative, HrefImage>>
    /\ Range(pdf_links) = {HrefUpper, HrefRelative}
    /\ Len(pdf_links) = 2

\* C9: the snapshot is written at most once, and only when it was absent; a
\* snapshot that is there is not fetched again, stays as it was, and is what
\* the links are read from.
C9_SnapshotWrittenOnce ==
    /\ writes <= 1
    /\ fetches <= 1
    /\ writes = 1 => ~html0.exists
    /\ html0.exists =>
          /\ fetches = 0
          /\ writes = 0
          /\ htmlFile = html0
          /\ idx > 0 => Range(pdf_links) =
                           {h \in Range(html0.content) : DecodedEndsInPdf(h)}

\* C9 witness: a run on a cached snapshot whose link was downloaded.
C9_Witness ==
    /\ html0.exists
    /\ pc = "done"
    /\ \E i \in DOMAIN outcome : outcome[i] = "moved"

\* C10: the file moved to the canonical name of the i-th link is the download
\* of the i-th link.
C10_MovesOwnDownload ==
    \A i \in DOMAIN moved : moved[i].tag = i

====
